---- MODULE Spec2Model ----
(***************************************************************************)
(* Element transformation / reference resolution (transformValues,         *)
(* transformElement, resolveReferences, restoreReferences), the            *)
(* per-adapter dependency changers (adapterDependencyChanger,              *)
(* getAdapterDependencyChangers), the planner, the plan and apply of the   *)
(* CLI mocks, and add / remove / update of SalesforceAdapter with          *)
(* diagnose.  Each part has its own specification (SpecRefs, SpecDeps,     *)
(* SpecPlan, SpecApply, SpecCrud) over the one tuple of variables; the     *)
(* variables of the other parts stay None.                                 *)
(*                                                                         *)
(* Values are tagged records:                                              *)
(*   [k |-> "undefined"]              JS undefined (an absent result)      *)
(*   [k |-> "null"]                   JS null                              *)
(*   [k |-> "prim", v |-> n]          a number                             *)
(*   [k |-> "ref", value |-> t]       a ReferenceExpression to target t    *)
(*   [k |-> "list", items |-> <<..>>] a JS array                           *)
(*   [k |-> "obj", m |-> [key |-> v]] a plain object                       *)
(* Every transform operator returns the value the code returns (res)       *)
(* together with the sequence of callback invocations it made (calls), so  *)
(* that the side effects of a callback are a function of that sequence.    *)
(***************************************************************************)
EXTENDS Integers, Sequences, FiniteSets, TLC

\* Longest list held by an input element.
MaxLen == 2

\* Number of change ids of a dependency graph.
MaxIds == 2

\* Number of changes of a change set handed to the planner.
MaxChanges == 3

\* Number of calls of apply in flight at once.
MaxCalls == 2

\* Longest list of results that an aspects call gives.
MaxAspectResults == 1

VARIABLES
  pc,         \* what the last operation was
  elem,       \* the element handed to resolveReferences / transformValues
  lookup,     \* getLookUpName, a function from reference targets to values
  resolved,   \* result of resolveReferences(elem, lookup)
  target,     \* the element handed to restoreReferences as targetElement
  restored,   \* result of restoreReferences(elem, target, lookup)
  visits,     \* callback invocations of the second pass of restoreReferences
  tv,         \* arguments and result of a direct transformValues call
  changes,    \* the changes map: change id -> adapter of the change element
  deps,       \* the dependency map: change id -> set of change ids
  adapter,    \* name the invoked changer was wrapped with
  seen,       \* the (changes, deps) the wrapped changer was invoked with
  edits,      \* what the wrapper returned
  registry,   \* the adapter creators: adapter name -> adapter
  changers,   \* what getAdapterDependencyChangers(registry) returned
  views,      \* wrapped name -> the (changes, deps) its changer was invoked with
  handed,     \* the maps handed to the last changer, as it left them
  graph,      \* the change set handed to the planner: edges and grouping keys
  planned,    \* what planning graph gave
  replanned,  \* what planning graph a second time gave
  applies,    \* call of apply -> where it is, its force flag, plan, answer, result
  consulted,  \* the calls of shouldApply so far
  reported,   \* the calls of reportProgress so far
  idCounter,  \* the counter of _.uniqueId
  crud,       \* the call of add / remove / update: where it is and its outcome
  backend,    \* the calls made to the client and to the aspects, in issue order
  elements,   \* the discovered elements, as fixListsDiscovery leaves them
  isList,     \* the isList flag of every field of the discovered types
  discovered, \* the elements and the flags as the discovery tasks produced them
  tasks,      \* discover: the state of each of its four discovery tasks
  trail,      \* discover: what it did after the tasks, in order
  knownTypes, \* discoverMetadataTypes: the names of the types created so far
  describes,  \* discoverMetadataTypes: each discoverMetadataType task
  metadataTypes \* discoverMetadataTypes: what its promise settled with

vars == <<pc, elem, lookup, resolved, target, restored, visits, tv,
          changes, deps, adapter, seen, edits, registry, changers, views, handed,
          graph, planned, replanned, applies, consulted, reported, idCounter,
          crud, backend, elements, isList, discovered, tasks, trail, knownTypes,
          describes, metadataTypes>>

refVars == <<elem, lookup, resolved, target, restored, visits, tv>>
depVars == <<changes, deps, adapter, seen, edits, registry, changers, views, handed>>
planVars == <<graph, planned, replanned>>
applyVars == <<applies, consulted, reported, idCounter>>
crudVars == <<crud, backend>>
listVars == <<elements, isList, discovered>>
discoverVars == <<tasks, trail>>
typeVars == <<knownTypes, describes, metadataTypes>>
discVars == <<listVars, discoverVars, typeVars>>

None == [none |-> TRUE]

\* The variables of a part of the program that a specification leaves out.
IdleRefs ==
  /\ elem = None /\ lookup = None /\ resolved = None /\ target = None
  /\ restored = None /\ visits = None /\ tv = None

IdleDeps ==
  /\ changes = None /\ deps = None /\ adapter = None /\ seen = None
  /\ edits = None /\ registry = None /\ changers = None /\ views = None
  /\ handed = None

IdlePlan == graph = None /\ planned = None /\ replanned = None

IdleApply ==
  applies = None /\ consulted = None /\ reported = None /\ idCounter = None

IdleCrud == crud = None /\ backend = None

IdleLists == elements = None /\ isList = None /\ discovered = None

IdleDiscover == tasks = None /\ trail = None

IdleTypes == knownTypes = None /\ describes = None /\ metadataTypes = None

IdleDisc == IdleLists /\ IdleDiscover /\ IdleTypes

----------------------------------------------------------------------------
(* Values *)

Undefined == [k |-> "undefined"]
Null == [k |-> "null"]
Prim(n) == [k |-> "prim", v |-> n]
ReferenceExpression(t) == [k |-> "ref", value |-> t]
List(s) == [k |-> "list", items |-> s]
Obj(map) == [k |-> "obj", m |-> map]
EmptyMap == [key \in {} |-> Undefined]

isUndefined(val) == val.k = "undefined"
isReferenceExpression(val) == val.k = "ref"
isArray(val) == val.k = "list"
isPlainObject(val) == val.k = "obj"

\* _.isEqual: deep equality, insensitive to key order.
isEqual(v1, v2) == v1 = v2

\* _.omitBy(obj, _.isUndefined); _.omitBy(undefined, ...) is {}.
omitUndefined(val) ==
  IF isPlainObject(val)
  THEN [key \in {n \in DOMAIN val.m : ~isUndefined(val.m[n])} |-> val.m[key]]
  ELSE EmptyMap

\* _.isEmpty of a plain object.
isEmpty(map) == DOMAIN map = {}

----------------------------------------------------------------------------
(* Path addressing (ElemID) *)

\* An absent pathID (the optional parameter left undefined).
NoPath == <<>>

\* keyPathID?.createNestedID(name)
createNestedID(pathID, name) ==
  IF pathID = NoPath THEN NoPath ELSE Append(pathID, name)

RECURSIVE getFullName(_)
\* The canonical string form: the parts joined by '.'.
getFullName(pathID) ==
  IF Len(pathID) = 1 THEN pathID[1]
  ELSE getFullName(SubSeq(pathID, 1, Len(pathID) - 1)) \o "." \o pathID[Len(pathID)]

----------------------------------------------------------------------------
(* Schema *)

PrimitiveType == [kind |-> "primitive"]
ObjectType(fieldMap) == [kind |-> "object", fields |-> fieldMap]
Field(type) == [type |-> type]
NoField == [nofield |-> TRUE]

isPrimitiveType(type) == type.kind = "primitive"
isObjectType(type) == "kind" \in DOMAIN type /\ type.kind = "object"

\* fieldMap[key], undefined when the type has no such field.
FieldOf(fieldMap, key) ==
  IF key \in DOMAIN fieldMap THEN fieldMap[key] ELSE NoField

----------------------------------------------------------------------------
(* Callbacks *)

\* A callback closure: which transformPrimitives and transformReferences
\* functions are passed, and what they close over.
Callbacks(primFn, refFn, getLookUpName, allReferencesPaths) ==
  [prim |-> primFn, ref |-> refFn,
   lookup |-> getLookUpName, refs |-> allReferencesPaths]

\* One callback invocation: which callback, its arguments, what it returned.
Call(fn, val, pathID, ret) == [fn |-> fn, val |-> val, path |-> pathID, ret |-> ret]

\* ref => getLookUpName(ref.value)
referenceReplacer(getLookUpName, ref) == getLookUpName[ref.value]

\* Mutant: the recorded reference is put back without comparing values.
restoreReferencesFunc_NoCompare(allReferencesPaths, getLookUpName, val, pathID) ==
  IF pathID = NoPath THEN val
  ELSE IF getFullName(pathID) \in DOMAIN allReferencesPaths
       THEN allReferencesPaths[getFullName(pathID)]
       ELSE val

restoreReferencesFunc(allReferencesPaths, getLookUpName, val, pathID) ==
  IF pathID = NoPath THEN val
  ELSE IF /\ getFullName(pathID) \in DOMAIN allReferencesPaths
          /\ isEqual(getLookUpName[allReferencesPaths[getFullName(pathID)].value], val)
       THEN allReferencesPaths[getFullName(pathID)]
       ELSE val

\* transformPrimitives(val, pathID, field).  "identity" is the default
\* v => v; "restore" is restoreReferencesFunc; "dropOnes" and "dropAll" are
\* caller-supplied transforms that return undefined for the number 1 / for
\* every value.
transformPrimitives(cb, val, pathID) ==
  CASE cb.prim = "identity" -> val
    [] cb.prim = "restore" -> restoreReferencesFunc(cb.refs, cb.lookup, val, pathID)
    [] cb.prim = "dropOnes" -> IF val = Prim(1) THEN Undefined ELSE val
    [] cb.prim = "dropAll" -> Undefined

\* transformReferences(val, pathID).  "identity" is the default v => v;
\* "lookup" is referenceReplacer; "record" is createPathMapCallback, whose
\* allReferencesPaths.set is read off the call sequence; "dropAll" is a
\* caller-supplied transform returning undefined.
transformReferences(cb, val, pathID) ==
  CASE cb.ref = "identity" -> val
    [] cb.ref = "lookup" -> referenceReplacer(cb.lookup, val)
    [] cb.ref = "record" -> val
    [] cb.ref = "dropAll" -> Undefined

----------------------------------------------------------------------------
(* Transform engine *)

RECURSIVE ConcatCalls(_, _)
\* The calls of R[1], ..., R[n] in order.
ConcatCalls(R, n) ==
  IF n = 0 THEN <<>> ELSE ConcatCalls(R, n - 1) \o R[n].calls

RECURSIVE KeyOrder(_)
\* The keys of an object as a sequence (the order mapValues visits them in).
KeyOrder(keys) ==
  IF keys = {} THEN <<>>
  ELSE LET key == CHOOSE n \in keys : TRUE
       IN <<key>> \o KeyOrder(keys \ {key})

\* Mutant: a key without a field is passed through in both modes.
unknownFieldResult_KeepAlways(value, strict) == value

\* if (field === undefined) return strict ? undefined : value
unknownFieldResult(value, strict) == IF strict THEN Undefined ELSE value

\* Mutant: the pathID of an element counts from 1.
itemPathID_OneBased(keyPathID, index) == createNestedID(keyPathID, ToString(index))

\* keyPathID?.createNestedID(String(index)), index being the position of
\* the element in the array counted from 0 (the index-th of value.items).
itemPathID(keyPathID, index) == createNestedID(keyPathID, ToString(index - 1))

\* .filter(val => !_.isUndefined(val))
withoutUndefined(items) == SelectSeq(items, LAMBDA val : ~isUndefined(val))

\* Mutant: an empty result is returned as it is.
valuesResult_NoCollapse(result) == Obj(result)

\* return _.isEmpty(result) ? undefined : result
valuesResult(result) == IF isEmpty(result) THEN Undefined ELSE Obj(result)

RECURSIVE transformValue(_, _, _, _, _)
RECURSIVE transformValues(_, _, _, _, _)

transformValue(value, keyPathID, field, cb, strict) ==
  IF field = NoField
  THEN [res |-> unknownFieldResult(value, strict), calls |-> <<>>]
  ELSE IF isReferenceExpression(value)
  THEN LET ret == transformReferences(cb, value, keyPathID)
       IN [res |-> ret, calls |-> <<Call("ref", value, keyPathID, ret)>>]
  ELSE IF isArray(value)
  THEN LET R == [index \in 1..Len(value.items) |->
                   transformValue(value.items[index],
                                  itemPathID(keyPathID, index),
                                  field, cb, strict)]
           mapped == [index \in 1..Len(value.items) |-> R[index].res]
           transformed == withoutUndefined(mapped)
       IN [res |-> IF Len(transformed) = 0 THEN Undefined ELSE List(transformed),
           calls |-> ConcatCalls(R, Len(value.items))]
  ELSE IF isPrimitiveType(field.type)
  THEN LET ret == transformPrimitives(cb, value, keyPathID)
       IN [res |-> ret, calls |-> <<Call("prim", value, keyPathID, ret)>>]
  ELSE IF isObjectType(field.type)
  THEN LET inner == transformValues(value, field.type, cb, strict, keyPathID)
           transformed == omitUndefined(inner.res)
       IN [res |-> IF isEmpty(transformed) THEN Undefined ELSE Obj(transformed),
           calls |-> inner.calls]
  ELSE [res |-> Undefined, calls |-> <<>>]

transformValues(values, type, cb, strict, pathID) ==
  LET fieldMap == IF isObjectType(type) THEN type.fields
                  ELSE [name \in DOMAIN type |-> Field(type[name])]
      \* _(values).mapValues iterates the own keys of an object; a number,
      \* null or undefined has none.
      map == IF isPlainObject(values) THEN values.m ELSE EmptyMap
      order == KeyOrder(DOMAIN map)
      R == [i \in 1..Len(order) |->
              transformValue(map[order[i]], createNestedID(pathID, order[i]),
                             FieldOf(fieldMap, order[i]), cb, strict)]
      mapped == [key \in DOMAIN map |->
                   (CHOOSE i \in 1..Len(order) : order[i] = key)]
      result == omitUndefined(Obj([key \in DOMAIN map |-> R[mapped[key]].res]))
  IN [res |-> valuesResult(result),
      calls |-> ConcatCalls(R, Len(order))]

\* transformElement of an InstanceElement: the annotations, then the values,
\* both under pathID = element.elemID; an absent result becomes {}.
transformElement(element, cb, strict) ==
  LET annos == transformValues(element.annotations, element.annotationTypes,
                               cb, strict, element.elemID)
      vals == transformValues(element.value, element.type, cb, strict, element.elemID)
      orEmpty(val) == IF isUndefined(val) THEN Obj(EmptyMap) ELSE val
  IN [element |-> [elemID |-> element.elemID,
                   type |-> element.type,
                   annotationTypes |-> element.annotationTypes,
                   value |-> orEmpty(vals.res),
                   annotations |-> orEmpty(annos.res)],
      calls |-> annos.calls \o vals.calls]

resolveReferences(element, getLookUpName) ==
  transformElement(element,
                   Callbacks("identity", "lookup", getLookUpName, EmptyMap),
                   FALSE).element

\* The map built by createPathMapCallback over a pass: every reference call
\* with a pathID sets its full name, a later set overwriting an earlier one.
allReferencesPathsOf(calls) ==
  LET sets == {i \in 1..Len(calls) : calls[i].fn = "ref" /\ calls[i].path # NoPath}
      last(name) == CHOOSE i \in sets :
                      /\ getFullName(calls[i].path) = name
                      /\ \A j \in sets : getFullName(calls[j].path) = name => j <= i
  IN [name \in {getFullName(calls[i].path) : i \in sets} |-> calls[last(name)].val]

\* Mutant: the transformed values and annotations are written into the
\* element that was passed in.
elementAfterTransform_InPlace(element, newElement) == newElement

\* The element passed to transformElement, as it is once the call returned:
\* the results of mapValues / omitBy / map are fresh objects and go into a
\* new InstanceElement, nothing is assigned to element.
elementAfterTransform(element, newElement) == element

\* restoreReferences, with the callback invocations of its second pass and
\* its two element arguments as they are once the call returned.
restoreReferencesRun(source, targetElement, getLookUpName) ==
  LET pass1 == transformElement(source,
                                Callbacks("identity", "record", getLookUpName, EmptyMap),
                                FALSE)
      allReferencesPaths == allReferencesPathsOf(pass1.calls)
      pass2 == transformElement(targetElement,
                                Callbacks("restore", "identity", getLookUpName,
                                          allReferencesPaths),
                                FALSE)
  IN [element |-> pass2.element,
      calls |-> pass2.calls,
      recorded |-> allReferencesPaths,
      source |-> elementAfterTransform(source, pass1.element),
      targetElement |-> elementAfterTransform(targetElement, pass2.element)]

restoreReferences(source, targetElement, getLookUpName) ==
  restoreReferencesRun(source, targetElement, getLookUpName).element

----------------------------------------------------------------------------
(* The elements, lookups and callbacks the operations are applied to *)

\* The type of the instances: a is a primitive field, o is a field of an
\* object type whose only field x is primitive.  No type has a field u.
NestedType == ObjectType([x |-> Field(PrimitiveType)])
InstType == ObjectType([a |-> Field(PrimitiveType), o |-> Field(NestedType)])

\* The annotation types of an instance: _parent is typed, _note is not.
InstanceAnnotationTypes == [name \in {"_parent"} |-> PrimitiveType]

InstElemID == <<"salto", "obj", "instance", "inst">>

RefTargets == {"t"}
Refs == {ReferenceExpression(t) : t \in RefTargets}
Leaves == {Prim(1)} \cup Refs

RECURSIVE SeqsUpTo(_, _)
\* The sequences over S of length at most n.
SeqsUpTo(S, n) ==
  IF n = 0 THEN {<<>>}
  ELSE LET shorter == SeqsUpTo(S, n - 1)
       IN shorter \cup {Append(s, e) : s \in {q \in shorter : Len(q) = n - 1}, e \in S}

\* The objects whose keys are among keys with values among vals.
ObjectsOver(keys, vals) ==
  UNION {{Obj(map) : map \in [present -> vals]} : present \in SUBSET keys}

\* What an instance may hold under a, under o and under u; Undefined is
\* the key being absent.
ValuesOfA == {Undefined, Null} \cup Leaves \cup {List(s) : s \in SeqsUpTo(Leaves, MaxLen)}
ValuesOfO == {Undefined} \cup Refs \cup ObjectsOver({"x", "u"}, Leaves)
ValuesOfU == {Undefined, List(<<>>)} \cup Leaves
AnnotationValues == ObjectsOver({"_parent"}, Leaves) \cup {Obj([name \in {"_note"} |-> r]) : r \in Refs}

InstanceElement(value, annotations) ==
  [elemID |-> InstElemID, type |-> InstType,
   annotationTypes |-> InstanceAnnotationTypes,
   value |-> value, annotations |-> annotations]

Elements ==
  {InstanceElement(Obj(omitUndefined(Obj([a |-> va, o |-> vo, u |-> vu]))), annos) :
     va \in ValuesOfA, vo \in ValuesOfO, vu \in ValuesOfU, annos \in AnnotationValues}

\* What getLookUpName may return for a target.
LookupValues ==
  {Undefined, Null, Prim(1), Prim(2), List(<<Prim(1)>>), Obj([x |-> Prim(1)])}
Lookups == [RefTargets -> LookupValues]

\* The callbacks of a direct transformValues call.
Modes == {"identity", "dropOnes", "dropAll"}

----------------------------------------------------------------------------
(* Operations on elements *)

InitRefs ==
  /\ pc = "init"
  /\ elem \in Elements
  /\ lookup = None /\ resolved = None /\ target = None
  /\ restored = None /\ visits = None /\ tv = None
  /\ IdleDeps /\ IdlePlan /\ IdleApply /\ IdleCrud /\ IdleDisc

\* transformValues({values: elem.value, type: elem.type, transformPrimitives,
\* transformReferences, strict, pathID})
Transform ==
  /\ pc = "init"
  /\ \E strict \in BOOLEAN, mode \in Modes, pathID \in {InstElemID, NoPath} :
       LET cb == Callbacks(mode, IF mode = "dropAll" THEN "dropAll" ELSE "identity",
                           None, EmptyMap)
           out == transformValues(elem.value, elem.type, cb, strict, pathID)
       IN tv' = [strict |-> strict, cb |-> cb, pathID |-> pathID,
                 res |-> out.res, calls |-> out.calls]
  /\ pc' = "transformed"
  /\ UNCHANGED <<elem, lookup, resolved, target, restored, visits>>
  /\ UNCHANGED <<depVars, planVars, applyVars, crudVars, discVars>>

\* resolved = resolveReferences(elem, getLookUpName)
Resolve ==
  /\ pc = "init"
  /\ \E getLookUpName \in Lookups :
       /\ lookup' = getLookUpName
       /\ resolved' = resolveReferences(elem, getLookUpName)
       /\ target' = resolved'
  /\ pc' = "resolved"
  /\ UNCHANGED <<elem, restored, visits, tv>>
  /\ UNCHANGED <<depVars, planVars, applyVars, crudVars, discVars>>

\* External tooling alters the resolved element before it is restored:
\* one top-level value is replaced by the literal 2.
Mutate ==
  /\ pc = "resolved"
  /\ \E key \in DOMAIN target.value.m :
       target' = [target EXCEPT !.value = Obj([target.value.m EXCEPT ![key] = Prim(2)])]
  /\ pc' = "mutated"
  /\ UNCHANGED <<elem, lookup, resolved, restored, visits, tv>>
  /\ UNCHANGED <<depVars, planVars, applyVars, crudVars, discVars>>

\* restored = restoreReferences(elem, target, getLookUpName)
Restore ==
  /\ pc \in {"resolved", "mutated"}
  /\ LET run == restoreReferencesRun(elem, target, lookup)
     IN /\ restored' = run.element
        /\ visits' = SelectSeq(run.calls, LAMBDA c : c.fn = "prim")
        /\ elem' = run.source
        /\ target' = run.targetElement
  /\ pc' = "restored"
  /\ UNCHANGED <<lookup, resolved, tv>>
  /\ UNCHANGED <<depVars, planVars, applyVars, crudVars, discVars>>

NextRefs == Transform \/ Resolve \/ Mutate \/ Restore

SpecRefs == InitRefs /\ [][NextRefs]_vars

----------------------------------------------------------------------------
(* Dependency changers *)

\* The adapters of the registry.
Adapters == {"salesforce", "hubspot"}

\* Change ids.
Ids == 1..MaxIds

\* A changes map: some ids, each with the adapter of its change element
\* (getChangeElement(change).elemID.adapter).
ChangeMaps == UNION {[present -> Adapters] : present \in SUBSET Ids}

\* A dependency map: some ids, each with the set of ids it depends on; no
\* id depends on itself.
DepMaps ==
  UNION {{d \in [present -> SUBSET Ids] : \A id \in present : id \notin d[id]} :
           present \in SUBSET Ids}

\* A DependencyChange.
DependencyChange(action, from, to) ==
  [action |-> action, dependency |-> [source |-> from, target |-> to]]

\* What a changer may return: nothing, or one edit between two changes of
\* the plan.  The changer is the adapter's own code and the wrapper does not
\* look at what it returns.
ChangerResults(changeMap) ==
  {<<>>} \cup {<<DependencyChange(action, from, to)>> :
                 action \in {"add", "remove"},
                 from \in DOMAIN changeMap, to \in DOMAIN changeMap}

\* Mutant: the changes of every adapter are kept.
filteredChangesOf_All(name, changeMap) == changeMap

\* new Map(wu(changes.entries()).filter(([_id, change]) =>
\*   getChangeElement(change).elemID.adapter === name))
filteredChangesOf(name, changeMap) ==
  [id \in {i \in DOMAIN changeMap : changeMap[i] = name} |-> changeMap[id]]

\* Mutant: the dependency set of a kept id is not filtered.
filteredIdDeps_Unfiltered(filteredChanges, idDeps) == idDeps

\* new Set(wu(idDeps).filter(dep => filteredChanges.has(dep)))
filteredIdDeps(filteredChanges, idDeps) ==
  {dep \in idDeps : dep \in DOMAIN filteredChanges}

\* new Map(wu(deps.entries()).filter(([id]) => filteredChanges.has(id)).map(...))
filteredDepsOf(filteredChanges, depMap) ==
  [id \in {i \in DOMAIN depMap : i \in DOMAIN filteredChanges} |->
     filteredIdDeps(filteredChanges, depMap[id])]

\* An adapter of the registry: without deployModifiers, with deployModifiers
\* that have no dependencyChanger, or with a dependencyChanger of its own.
AdapterShapes(name) ==
  {[deployModifiers |-> Undefined],
   [deployModifiers |-> [dependencyChanger |-> Undefined]],
   [deployModifiers |-> [dependencyChanger |-> [changerOf |-> name]]]}

\* The creators records: every adapter name registered with one adapter.
Registries ==
  {r \in [Adapters -> UNION {AdapterShapes(n) : n \in Adapters}] :
     \A n \in Adapters : r[n] \in AdapterShapes(n)}

\* adapterDependencyChanger(name, changer): the wrapped changer, a closure
\* over name and changer.
adapterDependencyChanger(name, changer) == [name |-> name, changer |-> changer]

\* ({ deployModifiers }) => deployModifiers?.dependencyChanger
dependencyChangerOf(creator) ==
  IF creator.deployModifiers = Undefined THEN Undefined
  ELSE creator.deployModifiers.dependencyChanger

\* Mutant: every mapped entry is kept.
pickDefined_All(mapped) == mapped

\* .pickBy(values.isDefined)
pickDefined(mapped) ==
  [name \in {n \in DOMAIN mapped : mapped[n] # Undefined} |-> mapped[name]]

\* getAdapterDependencyChangers(creators): the values of the wrapped map, in
\* the key order of creators.
getAdapterDependencyChangers(creators) ==
  LET mapped == [name \in DOMAIN creators |-> dependencyChangerOf(creators[name])]
      picked == pickDefined(mapped)
      wrapped == [name \in DOMAIN picked |-> adapterDependencyChanger(name, picked[name])]
      order == KeyOrder(DOMAIN wrapped)
  IN [i \in 1..Len(order) |-> wrapped[order[i]]]

\* What a changer may do with the maps it is handed before it returns: leave
\* them, empty its changes map, or add an id to one of its dependency sets.
WrittenViews(view) ==
  {view}
  \cup (IF DOMAIN view.changes = {} THEN {}
        ELSE {[changes |-> EmptyMap, deps |-> view.deps]})
  \cup UNION {{[changes |-> view.changes,
                deps |-> [view.deps EXCEPT ![id] = @ \cup {dep}]] :
                 dep \in Ids \ {id}} : id \in DOMAIN view.deps}

\* A run of a changer on a view: the edits it returns and the view as it
\* leaves it.  A changer that writes to its maps returns no edit.
ChangerRuns(view, changeMap) ==
  {[result |-> result, after |-> view] : result \in ChangerResults(changeMap)}
  \cup {[result |-> <<>>, after |-> after] : after \in WrittenViews(view)}

\* Mutant: the dependency sets of the kept ids are handed over as they are
\* and what the changer adds to them shows in the caller's map.
depsAfterCall_SharedSets(depMap, after) ==
  [id \in DOMAIN depMap |->
     IF id \in DOMAIN after.deps THEN after.deps[id] ELSE depMap[id]]

\* The caller's dependency map once the wrapped changer returned: the
\* changer was handed a new Map of new Sets, so depMap is as it was.
depsAfterCall(depMap, after) == depMap

\* The caller's changes map once the wrapped changer returned: the changer
\* was handed a new Map, so changeMap is as it was.
changesAfterCall(changeMap, after) == changeMap

\* The dependency graph of a plan: edges go between changes of the plan.
InitDeps ==
  /\ pc = "graph"
  /\ changes \in ChangeMaps
  /\ deps \in DepMaps
  /\ \A id \in DOMAIN deps : id \in DOMAIN changes /\ deps[id] \subseteq DOMAIN changes
  /\ registry \in Registries
  /\ changers = None /\ views = None /\ handed = None
  /\ adapter = None /\ seen = None /\ edits = None
  /\ IdleRefs /\ IdlePlan /\ IdleApply /\ IdleCrud /\ IdleDisc

\* changers = getAdapterDependencyChangers(registry)
GetChangers ==
  /\ pc = "graph"
  /\ changers' = getAdapterDependencyChangers(registry)
  /\ views' = EmptyMap
  /\ pc' = "changers"
  /\ UNCHANGED <<changes, deps, adapter, seen, edits, registry, handed>>
  /\ UNCHANGED <<refVars, planVars, applyVars, crudVars, discVars>>

\* adapterDependencyChanger(name, changer)(changes, deps) for one of the
\* wrapped changers not invoked yet, in any order: the changer is invoked
\* with the filtered maps and its result is returned as it is.
InvokeChanger ==
  /\ pc \in {"changers", "invoked"}
  /\ \E i \in 1..Len(changers) :
       LET name == changers[i].name
           filteredChanges == filteredChangesOf(name, changes)
           filteredDeps == filteredDepsOf(filteredChanges, deps)
           view == [changes |-> filteredChanges, deps |-> filteredDeps]
       IN /\ name \notin DOMAIN views
          /\ \E run \in ChangerRuns(view, changes) :
               /\ adapter' = name
               /\ seen' = view
               /\ views' = [n \in DOMAIN views \cup {name} |->
                              IF n = name THEN view ELSE views[n]]
               /\ edits' = run.result
               /\ handed' = run.after
               /\ changes' = changesAfterCall(changes, run.after)
               /\ deps' = depsAfterCall(deps, run.after)
  /\ pc' = "invoked"
  /\ UNCHANGED <<registry, changers>>
  /\ UNCHANGED <<refVars, planVars, applyVars, crudVars, discVars>>

NextDeps == GetChangers \/ InvokeChanger

SpecDeps == InitDeps /\ [][NextDeps]_vars

----------------------------------------------------------------------------
(* The planner *)

\* The ids of the changes of a change set.
ChangeIds == 1..MaxChanges

\* The grouping keys a change producer supplies.
GroupKeys == {"lead", "account"}

\* A change set as the planner takes it: for every change the set of changes
\* it depends on (must be applied first), never itself, and its grouping key.
PlanGraphs ==
  {g \in [deps : [ChangeIds -> SUBSET ChangeIds], groupKey : [ChangeIds -> GroupKeys]] :
     \A id \in ChangeIds : id \notin g.deps[id]}

\* Mutant: the tie between the changes that are free is broken one way
\* the first time the change set is planned and another way afterwards.
nextFree_Unstable(free) ==
  IF pc = "planned" THEN CHOOSE id \in free : \A other \in free : other <= id
  ELSE CHOOSE id \in free : \A other \in free : id <= other

\* The change evaluated next among the changes whose dependencies are all
\* evaluated: the tie is broken by the id, which is part of the input.
nextFree(free) == CHOOSE id \in free : \A other \in free : id <= other

\* Mutant: the changes of a cycle are evaluated in id order all the same.
onCycle_Linearize(order, remaining) ==
  [error |-> FALSE, order |-> order \o KeyOrder(remaining), cycle |-> {}]

\* No remaining change is free: the graph has a cycle, planning fails with
\* the ids implicated and there is no order.
onCycle(order, remaining) ==
  [error |-> TRUE, order |-> <<>>, cycle |-> remaining]

\* The topological evaluation order of the changes, or the cycle error.
RECURSIVE evaluationOrderFrom(_, _, _)
evaluationOrderFrom(depMap, remaining, order) ==
  LET free == {id \in remaining : depMap[id] \cap remaining = {}}
  IN IF remaining = {} THEN [error |-> FALSE, order |-> order, cycle |-> {}]
     ELSE IF free = {} THEN onCycle(order, remaining)
     ELSE evaluationOrderFrom(depMap, remaining \ {nextFree(free)},
                              Append(order, nextFree(free)))

evaluationOrder(depMap) == evaluationOrderFrom(depMap, DOMAIN depMap, <<>>)

\* The PlanItems of a change set: one per grouping key in use, holding the
\* changes of that key; its representative change is its change of least id.
planItemsOf(g) ==
  {[groupKey |-> key,
    items |-> {id \in ChangeIds : g.groupKey[id] = key},
    parent |-> CHOOSE id \in ChangeIds :
                 /\ g.groupKey[id] = key
                 /\ \A other \in ChangeIds : g.groupKey[other] = key => id <= other] :
     key \in {g.groupKey[id] : id \in ChangeIds}}

\* Mutant: the PlanItems are exposed in the reverse of the evaluation order.
itemsByEvalOrder_Reversed(items, order) ==
  LET parents == SelectSeq(order, LAMBDA id : \E item \in items : item.parent = id)
  IN [i \in 1..Len(parents) |->
        CHOOSE item \in items : item.parent = parents[Len(parents) + 1 - i]]

\* The PlanItems in evaluation order: the order of their representative
\* changes in the evaluation order of the changes.
itemsByEvalOrder(items, order) ==
  LET parents == SelectSeq(order, LAMBDA id : \E item \in items : item.parent = id)
  IN [i \in 1..Len(parents) |-> CHOOSE item \in items : item.parent = parents[i]]

\* Planning a change set: a cycle error and no plan, or the plan.
planOf(g) ==
  LET evaluated == evaluationOrder(g.deps)
  IN IF evaluated.error THEN [error |-> "cycle", cycle |-> evaluated.cycle]
     ELSE [error |-> "none",
           itemsByEvalOrder |-> itemsByEvalOrder(planItemsOf(g), evaluated.order)]

InitPlan ==
  /\ pc = "changeset"
  /\ graph \in PlanGraphs
  /\ planned = None /\ replanned = None
  /\ IdleRefs /\ IdleDeps /\ IdleApply /\ IdleCrud /\ IdleDisc

\* The change set is planned.
Plan ==
  /\ pc = "changeset"
  /\ planned' = planOf(graph)
  /\ pc' = "planned"
  /\ UNCHANGED <<graph, replanned>>
  /\ UNCHANGED <<refVars, depVars, applyVars, crudVars, discVars>>

\* The same change set with the same edges is planned once more.
Replan ==
  /\ pc = "planned"
  /\ replanned' = planOf(graph)
  /\ pc' = "replanned"
  /\ UNCHANGED <<graph, planned>>
  /\ UNCHANGED <<refVars, depVars, applyVars, crudVars, discVars>>

NextPlan == Plan \/ Replan

SpecPlan == InitPlan /\ [][NextPlan]_vars

----------------------------------------------------------------------------
(* The plan and apply of the CLI mocks *)

\* The three PlanItems that plan() builds.
leadPlanItem ==
  [groupKey |-> "lead",
   items |-> {"lead", "lead_do_you_have_a_sales_team",
              "lead_how_many_sales_people", "lead_status"},
   parent |-> [action |-> "modify", name |-> "lead"]]

accountPlanItem ==
  [groupKey |-> "account",
   items |-> {"account_status", "account_name"},
   parent |-> [action |-> "modify", name |-> "account"]]

instancePlanItem ==
  [groupKey |-> "instance",
   items |-> {"instance"},
   parent |-> [action |-> "modify", name |-> "employee_instance"]]

\* _.uniqueId(prefix) when the counter stands at counter.
uniqueId(prefix, counter) == prefix \o ToString(counter + 1)

\* plan(): a GroupedNodeMap with one node per PlanItem, none with
\* dependencies, and an itemsByEvalOrder that returns the three items in a
\* fixed order.
plan(counter) ==
  [nodes |-> {[id |-> uniqueId("lead", counter), deps |-> {}, item |-> leadPlanItem],
              [id |-> uniqueId("account", counter + 1), deps |-> {},
               item |-> accountPlanItem],
              [id |-> uniqueId("instance", counter + 2), deps |-> {},
               item |-> instancePlanItem]},
   itemsByEvalOrder |-> <<leadPlanItem, accountPlanItem, instancePlanItem>>]

\* The calls of apply.
Calls == 1..MaxCalls

\* What the promise of shouldApply may settle to.
Answers == {"true", "false", "rejected"}

\* Mutant: the items are reported whatever shouldApply answered.
gateOpen_Always(force, answer) == TRUE

\* force || await shouldApply(changes)
gateOpen(force, answer) == force \/ answer = "true"

\* Mutant: the first item is not reported.
forEachItem_SkipFirst(call, items) ==
  [i \in 1..(Len(items) - 1) |-> [call |-> call, item |-> items[i + 1]]]

\* wu(changes.itemsByEvalOrder()).forEach(change => { reportProgress(change) }):
\* the calls of reportProgress it makes.
forEachItem(call, items) ==
  [i \in 1..Len(items) |-> [call |-> call, item |-> items[i]]]

InitApply ==
  /\ pc = "cli"
  /\ applies = [call \in Calls |-> [at |-> "idle"]]
  /\ consulted = <<>>
  /\ reported = <<>>
  /\ idCounter = 0
  /\ IdleRefs /\ IdleDeps /\ IdlePlan /\ IdleCrud /\ IdleDisc

\* apply(blueprints, fillConfig, shouldApply, reportProgress, force) is
\* called: it runs up to its first await, const changes = await plan().
ApplyCalled(call) ==
  /\ applies[call].at = "idle"
  /\ \E force \in BOOLEAN :
       applies' = [applies EXCEPT ![call] =
                     [at |-> "planned", force |-> force, changes |-> plan(idCounter),
                      answer |-> "none", result |-> None]]
  /\ idCounter' = idCounter + 3
  /\ UNCHANGED <<pc, consulted, reported>>
  /\ UNCHANGED <<refVars, depVars, planVars, crudVars, discVars>>

\* apply resumes after await plan(): with force the items are reported and
\* the plan is returned; without it shouldApply(changes) is called and apply
\* awaits its promise.
ApplyResumed(call) ==
  /\ applies[call].at = "planned"
  /\ IF applies[call].force
     THEN /\ reported' =
               IF gateOpen(applies[call].force, applies[call].answer)
               THEN reported \o forEachItem(call, applies[call].changes.itemsByEvalOrder)
               ELSE reported
          /\ applies' = [applies EXCEPT ![call].at = "returned",
                                        ![call].result = applies[call].changes]
          /\ UNCHANGED consulted
     ELSE /\ consulted' = Append(consulted, [call |-> call, plan |-> applies[call].changes])
          /\ applies' = [applies EXCEPT ![call].at = "asking"]
          /\ UNCHANGED reported
  /\ UNCHANGED <<pc, idCounter>>
  /\ UNCHANGED <<refVars, depVars, planVars, crudVars, discVars>>

\* The promise of shouldApply settles and apply resumes: a rejection is the
\* rejection of apply, otherwise the items are reported if the answer is
\* true and the plan is returned.
ShouldApplySettled(call) ==
  /\ applies[call].at = "asking"
  /\ \E answer \in Answers :
       IF answer = "rejected"
       THEN /\ applies' = [applies EXCEPT ![call].at = "rejected",
                                          ![call].answer = answer]
            /\ UNCHANGED reported
       ELSE /\ applies' = [applies EXCEPT ![call].at = "returned",
                                          ![call].answer = answer,
                                          ![call].result = applies[call].changes]
            /\ reported' =
                 IF gateOpen(applies[call].force, answer)
                 THEN reported \o forEachItem(call, applies[call].changes.itemsByEvalOrder)
                 ELSE reported
  /\ UNCHANGED <<pc, consulted, idCounter>>
  /\ UNCHANGED <<refVars, depVars, planVars, crudVars, discVars>>

NextApply ==
  \E call \in Calls :
    ApplyCalled(call) \/ ApplyResumed(call) \/ ShouldApplySettled(call)

SpecApply == InitApply /\ [][NextApply]_vars

----------------------------------------------------------------------------
(* SalesforceAdapter: diagnose, add, remove, update *)

\* An SfError.
SfError(message) == [k |-> "obj", message |-> message]

\* A result record of the backend: without errors, with one SfError, or
\* with an array of two.  The messages name the call and the record.
RecordKinds == {"ok", "one", "many"}

SaveResult(kind, tag) ==
  [k |-> "obj",
   success |-> kind = "ok",
   errors |-> CASE kind = "ok" -> Undefined
                [] kind = "one" -> SfError(tag)
                [] kind = "many" -> List(<<SfError(tag \o " (1)"), SfError(tag \o " (2)")>>)]

\* strings.join(separator)
RECURSIVE join(_, _)
join(strings, separator) ==
  IF Len(strings) = 0 THEN ""
  ELSE IF Len(strings) = 1 THEN strings[1]
  ELSE strings[1] \o separator \o join(Tail(strings), separator)

\* Mutant: only the first SfError of an array is looked at.
errorMessage_FirstOnly(error) ==
  IF isArray(error) THEN error.items[1].message ELSE error.message

\* diagnose.errorMessage
errorMessage(error) ==
  IF isArray(error)
  THEN join([i \in 1..Len(error.items) |-> error.items[i].message], "\n")
  ELSE error.message

\* diagnose(result): the message of the Error it throws, or Undefined when
\* it returns.  result is Undefined, one record, or an array of records.
diagnose(result) ==
  LET failing == SelectSeq(result.items, LAMBDA r : r.errors # Undefined)
      errors ==
        IF isArray(result)
        THEN [i \in 1..Len(failing) |-> errorMessage(failing[i].errors)]
        ELSE IF result.errors # Undefined THEN <<errorMessage(result.errors)>>
        ELSE <<>>
  IN IF isUndefined(result) THEN Undefined
     ELSE IF Len(errors) > 0 THEN Prim(join(errors, "\n"))
     ELSE Undefined

\* The names of the object type and of its fields.
TypeNames == {"lead"}
FieldNames == {"a", "b"}

\* sfCase(name, custom): the name capitalised, with __c when custom.
sfCase(name, custom) ==
  LET capitalised == CASE name = "lead" -> "Lead"
                       [] name = "a" -> "A"
                       [] name = "b" -> "B"
  IN IF custom THEN capitalised \o "__c" ELSE capitalised

\* The annotation values an element or a field comes with: none, or an API
\* name of its own.
AnnotationsValues(name) ==
  {EmptyMap,
   [key \in {"api_name"} |-> sfCase(name, TRUE)],
   [key \in {"api_name"} |-> "Old__c"]}

\* The ObjectTypes handed to add, remove and update.
CustomObjects ==
  {[name |-> name, annotationsValues |-> annos, fields |-> fields] :
     name \in TypeNames,
     annos \in UNION {AnnotationsValues(n) : n \in TypeNames},
     fields \in UNION {[present -> {EmptyMap}] : present \in SUBSET FieldNames}}

\* annotateApiNameAndLabel.innerAnnotate
innerAnnotate(annotations, name) ==
  [key \in DOMAIN annotations \cup {"api_name", "label"} |->
     IF key \in DOMAIN annotations THEN annotations[key]
     ELSE IF key = "api_name" THEN sfCase(name, TRUE)
     ELSE sfCase(name, FALSE)]

\* annotateApiNameAndLabel applied to a clone of element.
annotateApiNameAndLabel(element) ==
  [name |-> element.name,
   annotationsValues |-> innerAnnotate(element.annotationsValues, element.name),
   fields |-> [field \in DOMAIN element.fields |->
                 innerAnnotate(element.fields[field], field)]]

\* apiName(element)
apiName(element) ==
  IF "api_name" \in DOMAIN element.annotationsValues
  THEN Prim(element.annotationsValues["api_name"])
  ELSE Undefined

\* element.getFieldsThatAreNotInOther(other), as a list of field names.
getFieldsThatAreNotInOther(element, other) ==
  KeyOrder(DOMAIN element.fields \ DOMAIN other.fields)

\* A call to the backend that has been issued and has not settled.
Issue(fn, type, names, single) ==
  [fn |-> fn, type |-> type, names |-> names, single |-> single,
   state |-> "pending", records |-> <<>>]

\* The records a call may resolve with: one per name of a client call, up
\* to MaxAspectResults for an aspects call.
RecordsOf(call) ==
  LET tag(i) == call.fn \o " " \o call.type \o " " \o ToString(i)
      lengths == IF call.type = "aspects" THEN 0..MaxAspectResults
                 ELSE {Len(call.names)}
  IN UNION {{[i \in 1..n |-> SaveResult(kinds[i], tag(i))] :
               kinds \in [1..n -> RecordKinds]} : n \in lengths}

\* The records of the calls of the log that have the given fn and type, in
\* the order the backend gave them; none when no such call was made.
recordsOf(log, fn, type) ==
  LET made == SelectSeq(log, LAMBDA call : call.fn = fn /\ call.type = type)
  IN IF Len(made) = 0 THEN <<>> ELSE made[1].records

\* The array handed to diagnose by add, remove and update.
\*   add:    [result, ...aspectsResult]
\*   remove: [result, ...aspectsResult]
\*   update: [..._.flatten(fieldsUpdateResult), objectUpdateResult, ...aspectsResult]
diagnosed(op, log) ==
  CASE op = "add" ->
         recordsOf(log, "client.create", "CustomObject")
         \o recordsOf(log, "aspects.add", "aspects")
    [] op = "remove" ->
         recordsOf(log, "client.delete", "CustomObject")
         \o recordsOf(log, "aspects.remove", "aspects")
    [] op = "update" ->
         recordsOf(log, "client.delete", "CustomField")
         \o recordsOf(log, "client.create", "CustomField")
         \o recordsOf(log, "client.update", "CustomObject")
         \o recordsOf(log, "aspects.update", "aspects")

\* What the operation gives once diagnose ran: the Error of diagnose, or
\* post (add, update) or nothing (remove).
outcomeOf(op, post, log) ==
  LET thrown == diagnose(List(diagnosed(op, log)))
  IN IF thrown # Undefined THEN [k |-> "threw", message |-> thrown.v]
     ELSE [k |-> "returned", value |-> IF op = "remove" THEN Undefined ELSE post]

\* element.clone(): a copy that shares no annotation values with element.
clone(element) == element

\* Mutant: the annotations are written to the element the caller passed.
callerElementAfter_NoClone(element, post) == post

\* The element the caller passed, once post = element.clone() was annotated:
\* annotateApiNameAndLabel writes to post only.
callerElementAfter(element, post) == element

\* Mutant: update goes on whatever the api names are.
apiNamesDiffer_Never(post, prevElement) == FALSE

\* apiName(post) !== apiName(prevElement)
apiNamesDiffer(post, prevElement) == apiName(post) # apiName(prevElement)

\* Mutant: Promise.all gives way as soon as one of its promises resolved.
promiseAllResolved_Any(log) == \E j \in 1..Len(log) : log[j].state = "done"

\* await Promise.all([...]) resumes once every promise resolved.
promiseAllResolved(log) == \A j \in 1..Len(log) : log[j].state = "done"

InitCrud ==
  /\ pc = "adapter"
  /\ crud = [at |-> "idle"]
  /\ backend = <<>>
  /\ IdleRefs /\ IdleDeps /\ IdlePlan /\ IdleApply /\ IdleDisc

\* add(element) up to its first await: client.create is issued.
Add ==
  /\ crud.at = "idle"
  /\ \E element \in CustomObjects :
       LET post == annotateApiNameAndLabel(clone(element))
       IN /\ crud' = [op |-> "add", at |-> "client", prev |-> element, post |-> post,
                      outcome |-> None]
          /\ backend' = <<Issue("client.create", "CustomObject", <<apiName(post)>>, TRUE)>>
  /\ UNCHANGED pc
  /\ UNCHANGED <<refVars, depVars, planVars, applyVars, discVars>>

\* remove(element) up to its first await: client.delete is issued.
Remove ==
  /\ crud.at = "idle"
  /\ \E element \in CustomObjects :
       /\ crud' = [op |-> "remove", at |-> "client", prev |-> element, post |-> element,
                   outcome |-> None]
       /\ backend' = <<Issue("client.delete", "CustomObject", <<apiName(element)>>, TRUE)>>
  /\ UNCHANGED pc
  /\ UNCHANGED <<refVars, depVars, planVars, applyVars, discVars>>

\* update(prevElement, newElement) up to its first await: it throws when the
\* api names differ; otherwise deleteCustomFields and createFields are
\* called, each issuing one client call unless it has no field, and
\* client.update is issued at once when neither has.
Update ==
  /\ crud.at = "idle"
  /\ \E prevElement \in CustomObjects, newElement \in CustomObjects :
       LET post == annotateApiNameAndLabel(clone(newElement))
           fieldsToDelete == getFieldsThatAreNotInOther(prevElement, post)
           fieldsToAdd == getFieldsThatAreNotInOther(post, prevElement)
           started == [op |-> "update", at |-> "fields", prev |-> prevElement,
                       post |-> post, outcome |-> None,
                       newElement |-> newElement,
                       newElementAfter |-> callerElementAfter(newElement, post)]
           str(val) == IF isUndefined(val) THEN "undefined" ELSE val.v
       IN IF apiNamesDiffer(post, prevElement)
          THEN /\ crud' = [started EXCEPT
                             !.at = "done",
                             !.outcome =
                               [k |-> "threw",
                                message |-> "Failed to update element as api names pre="
                                            \o str(apiName(prevElement)) \o " and post="
                                            \o str(apiName(post)) \o " are different"]]
               /\ backend' = <<>>
          ELSE IF fieldsToDelete = <<>> /\ fieldsToAdd = <<>>
          THEN /\ crud' = [started EXCEPT !.at = "client"]
               /\ backend' = <<Issue("client.update", "CustomObject",
                                     <<apiName(post)>>, TRUE)>>
          ELSE /\ crud' = started
               /\ backend' =
                    (IF fieldsToDelete = <<>> THEN <<>>
                     ELSE <<Issue("client.delete", "CustomField", fieldsToDelete, FALSE)>>)
                    \o (IF fieldsToAdd = <<>> THEN <<>>
                        ELSE <<Issue("client.create", "CustomField", fieldsToAdd, FALSE)>>)
  /\ UNCHANGED pc
  /\ UNCHANGED <<refVars, depVars, planVars, applyVars, discVars>>

\* A call to the backend settles and the operation awaiting it resumes, up
\* to its next await or its end.  A rejected promise is thrown by the
\* await; a call that settles after the operation ended changes nothing.
Settle ==
  /\ crud.at # "idle"
  /\ \E i \in 1..Len(backend) :
       /\ backend[i].state = "pending"
       /\ \E rejected \in BOOLEAN, records \in RecordsOf(backend[i]) :
            LET settled == [backend EXCEPT
                              ![i].state = IF rejected THEN "rejected" ELSE "done",
                              ![i].records = IF rejected THEN <<>> ELSE records]
            IN /\ rejected => records = CHOOSE r \in RecordsOf(backend[i]) : TRUE
               /\ IF crud.at = "done"
                  THEN /\ backend' = settled
                       /\ UNCHANGED crud
                  ELSE IF rejected
                  THEN /\ backend' = settled
                       /\ crud' = [crud EXCEPT
                                     !.at = "done",
                                     !.outcome = [k |-> "rejected", by |-> backend[i].fn]]
                  ELSE IF crud.at = "fields"
                  THEN IF ~promiseAllResolved(settled)
                       THEN /\ backend' = settled
                            /\ UNCHANGED crud
                       ELSE /\ backend' =
                                 Append(settled,
                                        Issue("client.update", "CustomObject",
                                              <<apiName(crud.post)>>, TRUE))
                            /\ crud' = [crud EXCEPT !.at = "client"]
                  ELSE IF crud.at = "client"
                  THEN /\ backend' =
                            Append(settled,
                                   Issue("aspects." \o crud.op, "aspects", <<>>, FALSE))
                       /\ crud' = [crud EXCEPT !.at = "aspects"]
                  ELSE /\ backend' = settled
                       /\ crud' = [crud EXCEPT
                                     !.at = "done",
                                     !.outcome = outcomeOf(crud.op, crud.post, settled)]
  /\ UNCHANGED pc
  /\ UNCHANGED <<refVars, depVars, planVars, applyVars, discVars>>

NextCrud == Add \/ Remove \/ Update \/ Settle

SpecCrud == InitCrud /\ [][NextCrud]_vars

----------------------------------------------------------------------------
(* SalesforceAdapter.fixListsDiscovery *)

\* The discovered types: a type name -> its fields in key order.  A field
\* whose type is not one of these names is primitive.  The Field objects are
\* shared by every instance of the type, so a field is named by its type and
\* its name, and isList holds one flag for each.
MetadataSchema ==
  [Inst |-> <<[name |-> "a", type |-> "string"], [name |-> "o", type |-> "Nested"]>>,
   Nested |-> <<[name |-> "x", type |-> "string"]>>]

isObjectTypeName(type) == type \in DOMAIN MetadataSchema

FieldIds ==
  UNION {{<<type, MetadataSchema[type][i].name>> : i \in 1..Len(MetadataSchema[type])} :
           type \in DOMAIN MetadataSchema}

\* markList: a field that holds a sequence is a list field.
markList(field, value, flags) ==
  [value |-> value,
   isList |-> IF isArray(value) THEN [flags EXCEPT ![field] = TRUE] ELSE flags]

\* castLists: a single value of a list field is wrapped.
castLists(field, value, flags) ==
  [value |-> IF flags[field] /\ ~isArray(value) THEN List(<<value>>) ELSE value,
   isList |-> flags]

innerChangeOf(innerChange, field, value, flags) ==
  IF innerChange = "markList" THEN markList(field, value, flags)
  ELSE castLists(field, value, flags)

RECURSIVE applyRecursive(_, _, _, _)
RECURSIVE applyToKeys(_, _, _, _, _)
RECURSIVE applyToItems(_, _, _, _)

\* value[key].forEach(val => applyRecursive(fieldType, val, innerChange))
applyToItems(fieldType, items, innerChange, flags) ==
  IF items = <<>> THEN [value |-> <<>>, isList |-> flags]
  ELSE LET first == applyRecursive(fieldType, Head(items), innerChange, flags)
           rest == applyToItems(fieldType, Tail(items), innerChange, first.isList)
       IN [value |-> <<first.value>> \o rest.value, isList |-> rest.isList]

\* The body of Object.keys(type.fields).forEach, over the keys that are left.
applyToKeys(type, keys, value, innerChange, flags) ==
  IF keys = <<>> THEN [value |-> value, isList |-> flags]
  ELSE
    LET key == Head(keys).name
    IN IF key \notin DOMAIN value.m
       THEN applyToKeys(type, Tail(keys), value, innerChange, flags)
       ELSE
         LET changed == innerChangeOf(innerChange, <<type, key>>, value.m[key], flags)
             fieldType == Head(keys).type
             inner ==
               IF ~isObjectTypeName(fieldType) THEN changed
               ELSE IF isArray(changed.value)
               THEN LET each == applyToItems(fieldType, changed.value.items,
                                             innerChange, changed.isList)
                    IN [value |-> List(each.value), isList |-> each.isList]
               ELSE applyRecursive(fieldType, changed.value, innerChange,
                                   changed.isList)
         IN applyToKeys(type, Tail(keys), Obj([value.m EXCEPT ![key] = inner.value]),
                        innerChange, inner.isList)

\* applyRecursive: value[key] of a value that is no object is undefined for
\* every key, so such a value is left as it is.
applyRecursive(type, value, innerChange, flags) ==
  IF isPlainObject(value)
  THEN applyToKeys(type, MetadataSchema[type], value, innerChange, flags)
  ELSE [value |-> value, isList |-> flags]

isInstanceElement(element) == element.kind = "instance"

\* elements.filter(isInstanceElement).forEach(instance => applyRecursive(...)),
\* from the i-th element on.
RECURSIVE forEachInstance(_, _, _, _)
forEachInstance(elems, i, innerChange, flags) ==
  IF i > Len(elems) THEN [elements |-> elems, isList |-> flags]
  ELSE IF ~isInstanceElement(elems[i])
  THEN forEachInstance(elems, i + 1, innerChange, flags)
  ELSE LET applied == applyRecursive(elems[i].type, elems[i].value, innerChange, flags)
       IN forEachInstance([elems EXCEPT ![i].value = applied.value], i + 1,
                          innerChange, applied.isList)

fixListsDiscovery_CastFirst(elems, flags) ==
  LET cast == forEachInstance(elems, 1, "castLists", flags)
  IN forEachInstance(cast.elements, 1, "markList", cast.isList)

\* fixListsDiscovery: every instance is marked, then every instance is cast.
fixListsDiscovery(elems, flags) ==
  LET marked == forEachInstance(elems, 1, "markList", flags)
  IN forEachInstance(marked.elements, 1, "castLists", marked.isList)

\* The values a primitive field holds: a single value or a sequence of one.
LeafValues == {Prim(1), List(<<Prim(1)>>)}

\* The objects over the given fields, each field absent or one of values.
ObjectsHolding(choices) ==
  UNION {{Obj(map) : map \in {f \in [keys -> UNION {choices[key] : key \in keys}] :
                                 \A key \in keys : f[key] \in choices[key]}} :
           keys \in SUBSET DOMAIN choices}

NestedValues == ObjectsHolding([x |-> LeafValues])

InstValues ==
  ObjectsHolding([a |-> LeafValues,
               o |-> NestedValues \cup {List(items) : items \in SeqsUpTo(NestedValues, MaxLen)}])

InstanceNames == <<"i1", "i2">>

\* What discovery gives: the type and, in every order of their values, the
\* instances.
DiscoveredElements ==
  {<<[kind |-> "type", name |-> "Inst"]>> \o
     [i \in 1..Len(InstanceNames) |->
        [kind |-> "instance", name |-> InstanceNames[i], type |-> "Inst",
         value |-> values[i]]] :
     values \in [1..Len(InstanceNames) -> InstValues]}

InitLists ==
  /\ pc = "lists"
  /\ elements \in DiscoveredElements
  /\ isList \in [FieldIds -> BOOLEAN]
  /\ discovered = [elements |-> elements, isList |-> isList]
  /\ IdleRefs /\ IdleDeps /\ IdlePlan /\ IdleApply /\ IdleCrud
  /\ IdleDiscover /\ IdleTypes

FixLists ==
  /\ pc = "lists"
  /\ LET fixed == fixListsDiscovery(elements, isList)
     IN /\ elements' = fixed.elements
        /\ isList' = fixed.isList
  /\ pc' = "fixed"
  /\ UNCHANGED <<discovered, discoverVars, typeVars>>
  /\ UNCHANGED <<refVars, depVars, planVars, applyVars, crudVars>>

NextLists == FixLists

SpecLists == InitLists /\ [][NextLists]_vars

----------------------------------------------------------------------------
(* SalesforceAdapter.discoverMetadataTypes *)

MaxDepth == 2

\* DISCOVER_METADATA_TYPES_WHITELIST, two of its names.
DISCOVER_METADATA_TYPES_WHITELIST == <<"Flow", "Workflow">>

\* The soapType of a field that embeds fields of its own: a type of the
\* whitelist or a type no task asks for.
EmbeddedTypeNames == {"Flow", "FlowNode"}

\* field.fields: absent, a single field or an array of fields.
NoFields == [k |-> "none"]
OneField(field) == [k |-> "one", field |-> field]
ManyFields(items) == [k |-> "many", items |-> items]

\* The ValueTypeFields that embed fields up to the given depth.
RECURSIVE ValueTypeFields(_)
ValueTypeFields(depth) ==
  {[name |-> "f1", soapType |-> "string", fields |-> NoFields]} \cup
  (IF depth = 0 THEN {}
   ELSE UNION {{[name |-> "f1", soapType |-> soapType, fields |-> OneField(inner)],
                [name |-> "f1", soapType |-> soapType, fields |-> ManyFields(<<inner>>)]} :
                 soapType \in EmbeddedTypeNames, inner \in ValueTypeFields(depth - 1)})

\* What describeMetadataType resolves with: nothing, no field, one field,
\* or two fields of one soapType that embed the same fields.
DescribeResults ==
  {NoFields, ManyFields(<<>>)} \cup
  UNION {{ManyFields(<<field>>), ManyFields(<<field, [field EXCEPT !.name = "f2"]>>)} :
           field \in ValueTypeFields(MaxDepth)}

\* _.isEmpty(field.fields)
isEmptyFields(fields) ==
  fields.k = "none" \/ (fields.k = "many" /\ fields.items = <<>>)

\* Array.isArray(field.fields) ? field.fields : [field.fields]
asArray(fields) == IF fields.k = "many" THEN fields.items ELSE <<fields.field>>

knownTypesHas_Never(known, objectName) == FALSE

\* knownTypes.has(objectName); knownTypes is held as the set of its keys.
knownTypesHas(known, objectName) == objectName \in known

RECURSIVE createMetadataTypeElements(_, _, _)
RECURSIVE createEmbeddedTypes(_, _)

\* fields.filter(field => !_.isEmpty(field.fields)).map(field =>
\* createMetadataTypeElements(field.soapType, ..., knownTypes)), flattened.
createEmbeddedTypes(fields, known) ==
  IF fields = <<>> THEN [types |-> <<>>, knownTypes |-> known]
  ELSE LET field == Head(fields)
           first == IF isEmptyFields(field.fields)
                    THEN [types |-> <<>>, knownTypes |-> known]
                    ELSE createMetadataTypeElements(field.soapType,
                           ManyFields(asArray(field.fields)), known)
           rest == createEmbeddedTypes(Tail(fields), first.knownTypes)
       IN [types |-> first.types \o rest.types, knownTypes |-> rest.knownTypes]

\* createMetadataTypeElements: the types it returns and knownTypes as it
\* leaves it.  A type element is its name and the names of its fields.
createMetadataTypeElements(objectName, fields, known) ==
  IF knownTypesHas(known, objectName) THEN [types |-> <<>>, knownTypes |-> known]
  ELSE LET element == [name |-> objectName, fields |-> {}]
           withElement == known \cup {objectName}
       IN IF fields.k = "none"
          THEN [types |-> <<element>>, knownTypes |-> withElement]
          ELSE LET embeddedTypes == createEmbeddedTypes(fields.items, withElement)
                   fieldNames == {fields.items[i].name : i \in 1..Len(fields.items)}
               IN [types |-> <<[element EXCEPT !.fields = fieldNames]>> \o
                               embeddedTypes.types,
                   knownTypes |-> embeddedTypes.knownTypes]

\* _.flatten of the results of the tasks, in the order of the whitelist.
RECURSIVE flattenResults(_, _)
flattenResults(described, i) ==
  IF i > Len(described) THEN <<>>
  ELSE described[i].result \o flattenResults(described, i + 1)

InitTypes ==
  /\ pc = "describing"
  /\ knownTypes = {}
  /\ describes \in [1..Len(DISCOVER_METADATA_TYPES_WHITELIST) ->
                      {[state |-> "pending", fields |-> fields, result |-> <<>>] :
                         fields \in DescribeResults}]
  /\ metadataTypes = [state |-> "pending"]
  /\ IdleRefs /\ IdleDeps /\ IdlePlan /\ IdleApply /\ IdleCrud
  /\ IdleLists /\ IdleDiscover

\* describeMetadataType resolves for a task, which goes on to
\* createMetadataTypeElements.
DescribeResolved(i) ==
  /\ pc = "describing"
  /\ describes[i].state = "pending"
  /\ LET created == createMetadataTypeElements(DISCOVER_METADATA_TYPES_WHITELIST[i],
                                                describes[i].fields, knownTypes)
     IN /\ describes' = [describes EXCEPT ![i].state = "done",
                                          ![i].result = created.types]
        /\ knownTypes' = created.knownTypes
  /\ UNCHANGED <<pc, metadataTypes, listVars, discoverVars>>
  /\ UNCHANGED <<refVars, depVars, planVars, applyVars, crudVars>>

\* describeMetadataType rejects for a task: Promise.all rejects, the other
\* tasks run on.
DescribeRejected(i) ==
  /\ pc = "describing"
  /\ describes[i].state = "pending"
  /\ describes' = [describes EXCEPT ![i].state = "rejected"]
  /\ metadataTypes' = [state |-> "rejected"]
  /\ UNCHANGED <<pc, knownTypes, listVars, discoverVars>>
  /\ UNCHANGED <<refVars, depVars, planVars, applyVars, crudVars>>

\* Promise.all resolves once every task has.
TypesDiscovered ==
  /\ pc = "describing"
  /\ \A i \in DOMAIN describes : describes[i].state = "done"
  /\ metadataTypes' = [state |-> "done", types |-> flattenResults(describes, 1)]
  /\ pc' = "types"
  /\ UNCHANGED <<knownTypes, describes, listVars, discoverVars>>
  /\ UNCHANGED <<refVars, depVars, planVars, applyVars, crudVars>>

NextTypes ==
  \/ \E i \in 1..Len(DISCOVER_METADATA_TYPES_WHITELIST) : DescribeResolved(i)
  \/ \E i \in 1..Len(DISCOVER_METADATA_TYPES_WHITELIST) : DescribeRejected(i)
  \/ TypesDiscovered

SpecTypes == InitTypes /\ [][NextTypes]_vars

----------------------------------------------------------------------------
(* SalesforceAdapter.discover *)

\* The four discovery tasks, in the order of the array given to Promise.all.
DiscoveryTasks == <<"fieldTypes", "metadataTypes", "sObjects", "metadataInstances">>

\* The values of the instances that discoverMetadataInstances gives here.
SomeInstValues ==
  {Obj([a |-> Prim(1)]), Obj([a |-> List(<<Prim(1)>>)]),
   Obj([o |-> Obj([x |-> Prim(1)])]),
   Obj([o |-> List(<<Obj([x |-> List(<<Prim(1)>>)])>>)])}

\* What each task resolves with when it does.
TaskResults ==
  {[fieldTypes |-> <<[kind |-> "type", name |-> "string"]>>,
    metadataTypes |-> <<[kind |-> "type", name |-> "Inst"]>>,
    sObjects |-> <<[kind |-> "type", name |-> "Lead"]>>,
    metadataInstances |->
      [i \in 1..Len(InstanceNames) |->
         [kind |-> "instance", name |-> InstanceNames[i], type |-> "Inst",
          value |-> values[i]]]] :
     values \in [1..Len(InstanceNames) -> SomeInstValues]}

discoveryTasksResolved_Any(settled) ==
  \E i \in 1..Len(DiscoveryTasks) : settled[DiscoveryTasks[i]] = "done"

\* await Promise.all([fieldTypes, metadataTypes, sObjects, metadataInstances])
\* resolves.
discoveryTasksResolved(settled) ==
  \A i \in 1..Len(DiscoveryTasks) : settled[DiscoveryTasks[i]] = "done"

\* _.flatten of what the tasks resolved with.
RECURSIVE flattenTasks(_, _, _)
flattenTasks(settled, results, i) ==
  IF i > Len(DiscoveryTasks) THEN <<>>
  ELSE (IF settled[DiscoveryTasks[i]] = "done" THEN results[DiscoveryTasks[i]] ELSE <<>>)
       \o flattenTasks(settled, results, i + 1)

\* The statements of discover after the await: what they did, in order, with
\* the elements each was given, and the elements and flags they leave.
afterDiscovery(elems, flags) ==
  LET fixed == fixListsDiscovery(elems, flags)
  IN [elements |-> fixed.elements,
      isList |-> fixed.isList,
      trail |-> <<[step |-> "fixListsDiscovery", elements |-> elems],
                  [step |-> "aspects.discover", elements |-> fixed.elements],
                  [step |-> "return", elements |-> fixed.elements]>>]

InitDiscover ==
  /\ pc = "awaitTypes"
  /\ tasks = [fieldTypes |-> "done", metadataTypes |-> "pending",
              sObjects |-> "pending", metadataInstances |-> "unstarted"]
  /\ trail = <<>>
  /\ elements = <<>>
  /\ isList \in [FieldIds -> BOOLEAN]
  /\ \E results \in TaskResults : discovered = [results |-> results, isList |-> isList]
  /\ IdleRefs /\ IdleDeps /\ IdlePlan /\ IdleApply /\ IdleCrud /\ IdleTypes

\* A discovery task resolves.
TaskResolved(t) ==
  /\ pc \in {"awaitTypes", "awaitAll", "rejected"}
  /\ tasks[t] = "pending"
  /\ tasks' = [tasks EXCEPT ![t] = "done"]
  /\ UNCHANGED <<pc, trail, listVars, typeVars>>
  /\ UNCHANGED <<refVars, depVars, planVars, applyVars, crudVars>>

\* A discovery task rejects.
TaskRejected(t) ==
  /\ pc \in {"awaitTypes", "awaitAll", "rejected"}
  /\ tasks[t] = "pending"
  /\ tasks' = [tasks EXCEPT ![t] = "rejected"]
  /\ UNCHANGED <<pc, trail, listVars, typeVars>>
  /\ UNCHANGED <<refVars, depVars, planVars, applyVars, crudVars>>

\* await metadataTypes: discover goes on to start discoverMetadataInstances,
\* or rejects.
TypesAwaited ==
  /\ pc = "awaitTypes"
  /\ tasks.metadataTypes \in {"done", "rejected"}
  /\ IF tasks.metadataTypes = "done"
     THEN /\ tasks' = [tasks EXCEPT !.metadataInstances = "pending"]
          /\ pc' = "awaitAll"
     ELSE /\ pc' = "rejected"
          /\ UNCHANGED tasks
  /\ UNCHANGED <<trail, listVars, typeVars>>
  /\ UNCHANGED <<refVars, depVars, planVars, applyVars, crudVars>>

\* await Promise.all(...) resolves: fixListsDiscovery, aspects.discover and
\* the return follow with no await between them.
AllAwaited ==
  /\ pc = "awaitAll"
  /\ discoveryTasksResolved(tasks)
  /\ LET after == afterDiscovery(flattenTasks(tasks, discovered.results, 1), isList)
     IN /\ elements' = after.elements
        /\ isList' = after.isList
        /\ trail' = after.trail
  /\ pc' = "returned"
  /\ UNCHANGED <<tasks, discovered, typeVars>>
  /\ UNCHANGED <<refVars, depVars, planVars, applyVars, crudVars>>

\* await Promise.all(...) rejects as soon as one of the tasks has.
AllRejected ==
  /\ pc = "awaitAll"
  /\ \E i \in 1..Len(DiscoveryTasks) : tasks[DiscoveryTasks[i]] = "rejected"
  /\ pc' = "rejected"
  /\ UNCHANGED <<tasks, trail, listVars, typeVars>>
  /\ UNCHANGED <<refVars, depVars, planVars, applyVars, crudVars>>

NextDiscover ==
  \/ \E i \in 1..Len(DiscoveryTasks) : TaskResolved(DiscoveryTasks[i])
  \/ \E i \in 1..Len(DiscoveryTasks) : TaskRejected(DiscoveryTasks[i])
  \/ TypesAwaited
  \/ AllAwaited
  \/ AllRejected

SpecDiscover == InitDiscover /\ [][NextDiscover]_vars

----------------------------------------------------------------------------
(* Reading a value tree by path, for the properties below *)

\* The position in items that the path segment seg names, 0 when none.
IndexOf(items, seg) ==
  IF \E i \in 1..Len(items) : ToString(i - 1) = seg
  THEN CHOOSE i \in 1..Len(items) : ToString(i - 1) = seg
  ELSE 0

RECURSIVE GetAt(_, _)
\* The value at the relative path rel inside val, Undefined when there is none.
GetAt(val, rel) ==
  IF rel = <<>> THEN val
  ELSE IF isPlainObject(val) /\ Head(rel) \in DOMAIN val.m
  THEN GetAt(val.m[Head(rel)], Tail(rel))
  ELSE IF isArray(val) /\ IndexOf(val.items, Head(rel)) # 0
  THEN GetAt(val.items[IndexOf(val.items, Head(rel))], Tail(rel))
  ELSE Undefined

RECURSIVE PathsOf(_)
\* The relative paths of all the nodes of val, the root <<>> included.
PathsOf(val) ==
  {<<>>} \cup
  (IF isPlainObject(val)
   THEN UNION {{<<key>> \o p : p \in PathsOf(val.m[key])} : key \in DOMAIN val.m}
   ELSE IF isArray(val)
   THEN UNION {{<<ToString(i - 1)>> \o p : p \in PathsOf(val.items[i])} :
                 i \in 1..Len(val.items)}
   ELSE {})

\* The two value trees of an element.
Parts == {"value", "annotations"}

\* The paths of part at which the element holds a ReferenceExpression.
RefPaths(element, part) ==
  {p \in PathsOf(element[part]) : isReferenceExpression(GetAt(element[part], p))}

\* The subtree at p holds no ReferenceExpression.
RefFree(val) == \A p \in PathsOf(val) : ~isReferenceExpression(GetAt(val, p))

----------------------------------------------------------------------------
(* Properties *)

\* C1 (as claimed): round trip.  After restoreReferences(elem, target,
\* lookup), where target is resolveReferences(elem, lookup), every path at
\* which elem held a ReferenceExpression and whose resolved value was not
\* altered in between holds that ReferenceExpression again, whatever the
\* field's type and whatever value lookup returned for it.
C1_RoundTrip ==
  pc = "restored" =>
    \A part \in Parts : \A p \in RefPaths(elem, part) :
      (/\ ~isUndefined(lookup[GetAt(elem[part], p).value])
       /\ GetAt(target[part], p) = GetAt(resolved[part], p))
        => GetAt(restored[part], p) = GetAt(elem[part], p)

\* C4 (as claimed): resolveReferences leaves no ReferenceExpression anywhere
\* in the values or the annotations of its result, keys without a field and
\* list elements included.
C4_NoReferenceRemains ==
  pc = "resolved" => \A part \in Parts : RefFree(resolved[part])

\* C5 (as claimed): resolveReferences loses no data.  Every subtree of the
\* input that holds no reference (a literal, an empty list, an empty object,
\* a value under a key without a field) is at the same path in the result.
C5_NoDataLoss ==
  pc = "resolved" =>
    \A part \in Parts : \A p \in PathsOf(elem[part]) :
      RefFree(GetAt(elem[part], p)) => GetAt(resolved[part], p) = GetAt(elem[part], p)

\* C10 (as claimed): when lookup returns null for the target of a reference,
\* the result of resolveReferences holds null at the path of that reference.
C10_NullLookup ==
  pc = "resolved" =>
    \A part \in Parts : \A p \in RefPaths(elem, part) :
      lookup[GetAt(elem[part], p).value] = Null => GetAt(resolved[part], p) = Null

\* The ids of the changes of adapters other than the one invoked.
ForeignIds == {id \in DOMAIN changes : changes[id] # adapter}

\* C2: the wrapped changer is invoked with exactly the changes of its own
\* adapter, and with a dependency map whose keys and whose dependency sets
\* hold only ids of those changes; no id of another adapter is a node, an
\* edge source or an edge target of what it sees.
C2_ObserveOwnAdapterOnly ==
  pc = "invoked" =>
    /\ DOMAIN seen.changes = {id \in DOMAIN changes : changes[id] = adapter}
    /\ \A id \in DOMAIN seen.changes : seen.changes[id] = changes[id]
    /\ DOMAIN seen.deps \subseteq DOMAIN seen.changes
    /\ \A id \in DOMAIN seen.deps : seen.deps[id] \subseteq DOMAIN seen.changes
    /\ \A id \in ForeignIds :
         /\ id \notin DOMAIN seen.changes
         /\ id \notin DOMAIN seen.deps
         /\ \A source \in DOMAIN seen.deps : id \notin seen.deps[source]

\* C2 witness: the changer was invoked on a graph in which a change of its
\* own adapter depends on a change of another adapter.
C2_Witness ==
  /\ pc = "invoked"
  /\ \E id \in DOMAIN seen.deps : \E dep \in deps[id] : dep \in ForeignIds

\* C3 (as claimed): every edit that comes out of the wrapped changer has
\* its source and its target among the changes of that adapter.
C3_EditsStayInsideAdapter ==
  pc = "invoked" =>
    \A i \in 1..Len(edits) :
      /\ edits[i].dependency.source \in DOMAIN seen.changes
      /\ edits[i].dependency.target \in DOMAIN seen.changes

----------------------------------------------------------------------------
(* Properties of a direct transformValues call *)

\* The value the call returned under key, Undefined when the key is not in
\* the result.
ResAt(key) ==
  IF isPlainObject(tv.res) /\ key \in DOMAIN tv.res.m THEN tv.res.m[key] ELSE Undefined

\* What transformValue returns for the value under key when it is called
\* with the callbacks and the pathID of the recorded call and the given mode.
KeyResult(key, strict) ==
  transformValue(elem.value.m[key], createNestedID(tv.pathID, key),
                 FieldOf(elem.type.fields, key), tv.cb, strict).res

RECURSIVE KnownKeysOnly(_, _)
\* Every key met when val is walked along the schema of field has a field.
KnownKeysOnly(val, field) ==
  IF isReferenceExpression(val) THEN TRUE
  ELSE IF isArray(val)
  THEN \A i \in 1..Len(val.items) : KnownKeysOnly(val.items[i], field)
  ELSE IF isObjectType(field.type) /\ isPlainObject(val)
  THEN \A key \in DOMAIN val.m :
         /\ key \in DOMAIN field.type.fields
         /\ KnownKeysOnly(val.m[key], field.type.fields[key])
  ELSE TRUE

\* C6 (as claimed): a key without a field is dropped under strict = true and
\* passed through unchanged under strict = false; every key that has a field
\* gets the same result in both modes.
C6_StrictOmissionAsClaimed ==
  pc = "transformed" =>
    \A key \in DOMAIN elem.value.m :
      IF key \notin DOMAIN elem.type.fields
      THEN ResAt(key) = IF tv.strict THEN Undefined ELSE elem.value.m[key]
      ELSE ResAt(key) = KeyResult(key, ~tv.strict)

\* C6 (amended): a key without a field is dropped under strict = true and
\* passed through unchanged under strict = false; a key that has a field
\* gets the same result in both modes unless the value under it holds, at
\* some depth, a key without a field.
C6_StrictOmission ==
  pc = "transformed" =>
    \A key \in DOMAIN elem.value.m :
      IF key \notin DOMAIN elem.type.fields
      THEN ResAt(key) = IF tv.strict THEN Undefined ELSE elem.value.m[key]
      ELSE KnownKeysOnly(elem.value.m[key], elem.type.fields[key])
             => ResAt(key) = KeyResult(key, ~tv.strict)

\* C6 witness: a strict call on values that hold a key without a field
\* beside a key with one, the first dropped and the second kept.
C6_Witness ==
  /\ pc = "transformed" /\ tv.strict
  /\ "u" \in DOMAIN elem.value.m
  /\ ResAt("u") = Undefined
  /\ ResAt("a") # Undefined

RECURSIVE Collapsed(_, _)
\* No list and no object that the walk along fieldMap builds is empty, and
\* none holds an absent member.
Collapsed(val, fieldMap) ==
  /\ isPlainObject(val)
  /\ DOMAIN val.m # {}
  /\ \A key \in DOMAIN val.m \cap DOMAIN fieldMap :
       LET sub == val.m[key]
           NestedOk(v) ==
             (isObjectType(fieldMap[key].type) /\ isPlainObject(v))
                => Collapsed(v, fieldMap[key].type.fields)
       IN /\ ~isUndefined(sub)
          /\ IF isArray(sub)
             THEN /\ Len(sub.items) > 0
                  /\ \A i \in 1..Len(sub.items) :
                       ~isUndefined(sub.items[i]) /\ NestedOk(sub.items[i])
             ELSE NestedOk(sub)

\* C7: transformValues never returns an empty mapping; a key is in the
\* result exactly when its transform did not return absent; when every key's
\* transform returns absent the call returns absent; and this holds at every
\* depth: no object or list built for a field is empty or holds an absent
\* member, it is left out of its parent instead.
C7_CollapseToAbsent ==
  pc = "transformed" =>
    /\ tv.res # Obj(EmptyMap)
    /\ \A key \in DOMAIN elem.value.m :
         isUndefined(KeyResult(key, tv.strict)) <=> isUndefined(ResAt(key))
    /\ (\A key \in DOMAIN elem.value.m : isUndefined(KeyResult(key, tv.strict)))
         <=> isUndefined(tv.res)
    /\ ~isUndefined(tv.res) => Collapsed(tv.res, elem.type.fields)

\* C7 witness: a call whose transforms returned absent for every member of
\* a nested object and of a list, which returned absent as a whole.
C7_Witness ==
  /\ pc = "transformed"
  /\ tv.cb.prim = "dropOnes"
  /\ DOMAIN elem.value.m = {"a", "o"}
  /\ elem.value.m["a"] = List(<<Prim(1), Prim(1)>>)
  /\ elem.value.m["o"] = Obj([x |-> Prim(1)])
  /\ isUndefined(tv.res)

\* The calls of the recorded transformValues call made with pathID.
CallsAt(pathID) == {i \in 1..Len(tv.calls) : tv.calls[i].path = pathID}

\* C8: when the value of a field is a sequence, each element is transformed
\* on its own, with the field's pathID extended by the element's index in
\* the input sequence (from 0); the field's result is the sequence of the
\* results that are not absent, in their order, and absent if there is none.
C8_SequenceHandling ==
  pc = "transformed" =>
    \A key \in DOMAIN elem.value.m \cap DOMAIN elem.type.fields :
      isArray(elem.value.m[key]) =>
        LET items == elem.value.m[key].items
            field == elem.type.fields[key]
            keyPathID == createNestedID(tv.pathID, key)
            itemPath(i) == createNestedID(keyPathID, ToString(i - 1))
            own(i) == transformValue(items[i], itemPath(i), field, tv.cb, tv.strict).res
            kept == {i \in 1..Len(items) : ~isUndefined(own(i))}
        IN /\ tv.pathID # NoPath =>
                \A i \in 1..Len(items) :
                  /\ Cardinality(CallsAt(itemPath(i))) = 1
                  /\ \A c \in CallsAt(itemPath(i)) :
                       tv.calls[c].val = items[i] /\ tv.calls[c].ret = own(i)
           /\ IF kept = {} THEN isUndefined(ResAt(key))
              ELSE /\ isArray(ResAt(key))
                   /\ Len(ResAt(key).items) = Cardinality(kept)
                   /\ \A i \in kept :
                        ResAt(key).items[Cardinality({j \in kept : j <= i})] = own(i)

\* C8 witness: a call on a two-element sequence whose first element's
\* transform returned absent and whose second element survived.
C8_Witness ==
  /\ pc = "transformed"
  /\ tv.pathID # NoPath
  /\ tv.cb.prim = "dropOnes"
  /\ "a" \in DOMAIN elem.value.m
  /\ isArray(elem.value.m["a"])
  /\ Len(elem.value.m["a"].items) = 2
  /\ elem.value.m["a"].items[1] = Prim(1)
  /\ isArray(ResAt("a"))
  /\ Len(ResAt("a").items) = 1

----------------------------------------------------------------------------
(* Properties of restoreReferences *)

\* The value an element holds at pathID: pathIDs of values and of
\* annotations both extend the element's elemID.
AtPathID(element, pathID) ==
  LET rel == SubSeq(pathID, Len(element.elemID) + 1, Len(pathID))
  IN IF ~isUndefined(GetAt(element.value, rel)) THEN GetAt(element.value, rel)
     ELSE GetAt(element.annotations, rel)

\* C9: for each value of target visited at pathID p, the output holds the
\* ReferenceExpression of source at p if and only if source had a reference
\* at p and lookup of its target is deep-equal to the target value; in every
\* other case the output holds the target value.
C9_SubstitutionRule ==
  pc = "restored" =>
    \A i \in 1..Len(visits) :
      LET p == visits[i].path
          val == visits[i].val
          ref == AtPathID(elem, p)
          out == AtPathID(restored, p)
          substitute == isReferenceExpression(ref) /\ isEqual(lookup[ref.value], val)
      IN /\ val = AtPathID(target, p)
         /\ isReferenceExpression(out) <=> substitute
         /\ out = IF substitute THEN ref ELSE val

\* C9 witness: a restore that put one reference back and kept a literal at
\* a path where source had a reference whose looked-up value differs.
C9_Witness ==
  /\ pc = "restored"
  /\ \E i \in 1..Len(visits) : isReferenceExpression(visits[i].ret)
  /\ \E i \in 1..Len(visits) :
       /\ isReferenceExpression(AtPathID(elem, visits[i].path))
       /\ ~isReferenceExpression(visits[i].ret)

----------------------------------------------------------------------------
(* Properties of the wrapped dependency changers *)

OwnIds(name) == {id \in DOMAIN changes : changes[id] = name}

\* The edges of a dependency map.
EdgesOf(depMap) ==
  {e \in Ids \X Ids : e[1] \in DOMAIN depMap /\ e[2] \in depMap[e[1]]}

\* C13: for two distinct wrapped names invoked on the same graph, the
\* changes handed to the two changers are disjoint and no dependency key or
\* edge is handed to both; the view each changer was handed is the part of
\* the caller's graph that belongs to its adapter, whichever changer was
\* invoked first and whatever the other changer did.
C13_ParallelChangersIsolated ==
  pc = "invoked" =>
    /\ \A a \in DOMAIN views, b \in DOMAIN views :
         a # b =>
           /\ DOMAIN views[a].changes \cap DOMAIN views[b].changes = {}
           /\ DOMAIN views[a].deps \cap DOMAIN views[b].deps = {}
           /\ EdgesOf(views[a].deps) \cap EdgesOf(views[b].deps) = {}
    /\ \A n \in DOMAIN views :
         /\ DOMAIN views[n].changes = OwnIds(n)
         /\ DOMAIN views[n].deps = DOMAIN deps \cap OwnIds(n)
         /\ \A id \in DOMAIN views[n].deps :
              views[n].deps[id] = deps[id] \cap OwnIds(n)

\* C13 witness: both changers were invoked on a graph in which each adapter
\* has a change and a change of one depends on a change of the other, and
\* the changer invoked last wrote to the maps it was handed.
C13_Witness ==
  /\ pc = "invoked"
  /\ DOMAIN views = Adapters
  /\ \A n \in Adapters : OwnIds(n) # {}
  /\ \E id \in DOMAIN deps : \E dep \in deps[id] : changes[dep] # changes[id]
  /\ handed # seen

\* The adapters of the registry that define deployModifiers.dependencyChanger.
WithChanger ==
  {n \in DOMAIN registry :
     /\ registry[n].deployModifiers # Undefined
     /\ registry[n].deployModifiers.dependencyChanger # Undefined}

\* C14: getAdapterDependencyChangers returns exactly one wrapped changer for
\* each registered adapter that defines deployModifiers.dependencyChanger,
\* wrapped with the adapter's registry key around the adapter's own changer,
\* and nothing for an adapter without deployModifiers or without a
\* dependencyChanger.
C14_OneChangerPerAdapter ==
  pc \in {"changers", "invoked"} =>
    /\ Len(changers) = Cardinality(WithChanger)
    /\ {changers[i].name : i \in 1..Len(changers)} = WithChanger
    /\ \A i \in 1..Len(changers) :
         changers[i].changer = registry[changers[i].name].deployModifiers.dependencyChanger

\* C14 witness: a registry with one adapter that has a dependencyChanger,
\* and one that has deployModifiers without a dependencyChanger, gave one
\* wrapped changer.
C14_Witness ==
  /\ pc = "changers"
  /\ Len(changers) = 1
  /\ \E n \in Adapters :
       /\ registry[n].deployModifiers # Undefined
       /\ registry[n].deployModifiers.dependencyChanger = Undefined

----------------------------------------------------------------------------
(* Properties of the planner *)

\* The changes that a change depends on, directly or through other changes.
RECURSIVE DependenciesFrom(_, _)
DependenciesFrom(depMap, found) ==
  LET more == found \cup UNION {depMap[id] : id \in found}
  IN IF more = found THEN found ELSE DependenciesFrom(depMap, more)

DependsOn(depMap, id, other) == other \in DependenciesFrom(depMap, depMap[id])

HasCycle(depMap) == \E id \in DOMAIN depMap : DependsOn(depMap, id, id)

C16_CycleRejected ==
  pc \in {"planned", "replanned"} =>
    /\ HasCycle(graph.deps) <=> planned.error = "cycle"
    /\ planned.error = "cycle" =>
         /\ "itemsByEvalOrder" \notin DOMAIN planned
         /\ planned.cycle # {}
         /\ \E id \in planned.cycle : DependsOn(graph.deps, id, id)

\* C16 witness: the change set with the edges 1 -> 2 and 2 -> 1 was planned.
C16_Witness ==
  /\ pc = "planned"
  /\ 2 \in graph.deps[1] /\ 1 \in graph.deps[2]
  /\ planned.error = "cycle"

----------------------------------------------------------------------------
(* Properties of apply *)

\* The items a call of apply passed to reportProgress, in order.
ReportedBy(call) ==
  LET own == SelectSeq(reported, LAMBDA r : r.call = call)
  IN [i \in 1..Len(own) |-> own[i].item]

\* The number of times shouldApply was called by a call of apply.
ConsultedBy(call) ==
  Cardinality({i \in 1..Len(consulted) : consulted[i].call = call})

\* C18: a call of apply reports an item only if its force flag is true or
\* shouldApply answered true; with force true shouldApply is not called;
\* with force false and the answer false nothing is reported and the plan
\* is returned all the same.
C18_ApplyGate ==
  pc = "cli" =>
    \A call \in Calls :
      applies[call].at # "idle" =>
        /\ ReportedBy(call) # <<>> =>
             applies[call].force \/ applies[call].answer = "true"
        /\ applies[call].force => ConsultedBy(call) = 0
        /\ (~applies[call].force /\ applies[call].answer = "false") =>
             /\ ReportedBy(call) = <<>>
             /\ applies[call].at = "returned"
             /\ applies[call].result = applies[call].changes
             /\ applies[call].result.itemsByEvalOrder
                  = <<leadPlanItem, accountPlanItem, instancePlanItem>>

\* C18 witness: one call without force returned its plan after shouldApply
\* answered false, another call with force reported its items.
C18_Witness ==
  /\ pc = "cli"
  /\ \E call \in Calls :
       /\ applies[call].at = "returned"
       /\ ~applies[call].force /\ applies[call].answer = "false"
       /\ ConsultedBy(call) = 1
  /\ \E call \in Calls :
       /\ applies[call].at = "returned"
       /\ applies[call].force
       /\ ReportedBy(call) # <<>>

\* C19: a call of apply that proceeds (force, or shouldApply answered true)
\* has, when it returns, passed to reportProgress the sequence returned by
\* itemsByEvalOrder of its plan, item for item, and that sequence holds the
\* item of every node of the plan exactly once; a call that has not
\* proceeded has reported nothing.
C19_ProgressInEvalOrder ==
  pc = "cli" =>
    \A call \in Calls :
      IF applies[call].at = "returned"
         /\ (applies[call].force \/ applies[call].answer = "true")
      THEN /\ ReportedBy(call) = applies[call].changes.itemsByEvalOrder
           /\ \A node \in applies[call].changes.nodes :
                Cardinality({i \in 1..Len(ReportedBy(call)) :
                               ReportedBy(call)[i] = node.item}) = 1
           /\ Len(ReportedBy(call)) = Cardinality(applies[call].changes.nodes)
      ELSE ReportedBy(call) = <<>>

\* C19 witness: a call without force whose shouldApply answered true has
\* returned after reporting lead, account and instance.
C19_Witness ==
  /\ pc = "cli"
  /\ \E call \in Calls :
       /\ applies[call].at = "returned"
       /\ ~applies[call].force /\ applies[call].answer = "true"
       /\ Len(ReportedBy(call)) = 3
       /\ ReportedBy(call)[1] = leadPlanItem
       /\ ReportedBy(call)[3] = instancePlanItem

----------------------------------------------------------------------------
(* Properties of add, remove and update *)

\* The result records of the batch of an operation: the records its client
\* calls and its aspects call gave, in the order the calls were issued.
RECURSIVE BatchOf(_)
BatchOf(log) ==
  IF Len(log) = 0 THEN <<>> ELSE log[1].records \o BatchOf(Tail(log))

\* The error messages a record carries, in order.
MessagesOf(record) ==
  IF record.errors = Undefined THEN <<>>
  ELSE IF record.errors.k = "list"
  THEN [i \in 1..Len(record.errors.items) |-> record.errors.items[i].message]
  ELSE <<record.errors.message>>

\* Every error message of every record of a batch, in result order.
RECURSIVE AllMessages(_)
AllMessages(records) ==
  IF Len(records) = 0 THEN <<>>
  ELSE MessagesOf(records[1]) \o AllMessages(Tail(records))

\* The backend calls of the operation all gave their result records.
BatchComplete ==
  /\ crud.at = "done"
  /\ Len(backend) > 0
  /\ \A i \in 1..Len(backend) : backend[i].state = "done"
  /\ \E i \in 1..Len(backend) : backend[i].type = "aspects"

C22_UpdateOrdering ==
  (pc = "adapter" /\ crud.at # "idle" /\ crud.op = "update") =>
    \A i \in 1..Len(backend) :
      /\ backend[i].fn = "client.update" =>
           \A j \in 1..Len(backend) :
             backend[j].type = "CustomField" => j < i /\ backend[j].state = "done"
      /\ backend[i].fn = "aspects.update" =>
           \E j \in 1..(i - 1) :
             backend[j].fn = "client.update" /\ backend[j].state = "done"

\* C22 witness: an update that deleted a field and created another has
\* issued the object update, and after it the aspects update.
C22_Witness ==
  /\ pc = "adapter"
  /\ crud.at = "aspects"
  /\ crud.op = "update"
  /\ Len(backend) = 4
  /\ backend[1].fn = "client.delete" /\ backend[1].type = "CustomField"
  /\ backend[2].fn = "client.create" /\ backend[2].type = "CustomField"
  /\ backend[3].fn = "client.update" /\ backend[3].state = "done"
  /\ backend[4].fn = "aspects.update" /\ backend[4].state = "pending"

\* The API name of an element after default annotation.
AnnotatedApiName(element) ==
  IF "api_name" \in DOMAIN element.annotationsValues
  THEN element.annotationsValues["api_name"]
  ELSE sfCase(element.name, TRUE)

\* The API name of the new element after default annotation differs from
\* that of the previous element, which may have none.
ApiNameChanged ==
  \/ "api_name" \notin DOMAIN crud.prev.annotationsValues
  \/ crud.prev.annotationsValues["api_name"] # AnnotatedApiName(crud.newElement)

----------------------------------------------------------------------------
(* fixListsDiscovery: the shape of lists *)

\* The pairs <<field, value>> of the defined values that value, of the given
\* type, holds at the fields its schema reaches.
RECURSIVE HeldAt(_, _)
HeldAt(type, value) ==
  IF ~isPlainObject(value) THEN {}
  ELSE UNION {
    LET held == value.m[MetadataSchema[type][i].name]
        fieldType == MetadataSchema[type][i].type
    IN {<<<<type, MetadataSchema[type][i].name>>, held>>} \cup
       (IF ~isObjectTypeName(fieldType) THEN {}
        ELSE IF isArray(held)
        THEN UNION {HeldAt(fieldType, held.items[j]) : j \in 1..Len(held.items)}
        ELSE HeldAt(fieldType, held)) :
    i \in {n \in 1..Len(MetadataSchema[type]) :
             MetadataSchema[type][n].name \in DOMAIN value.m}}

HeldByInstances(elems) ==
  UNION {HeldAt(elems[i].type, elems[i].value) :
           i \in {n \in 1..Len(elems) : elems[n].kind = "instance"}}

\* C23: once fixListsDiscovery has run, a field at which an instance holds a
\* sequence, before or after the run, has isList set; every defined value an
\* instance holds at a field with isList set is a sequence; and a single
\* value at such a field has become the sequence of that one value.  The
\* instances are taken in every order of their values.
C23_ListShape ==
  pc = "fixed" =>
    /\ \A held \in HeldByInstances(discovered.elements) \cup HeldByInstances(elements) :
         isArray(held[2]) => isList[held[1]]
    /\ \A held \in HeldByInstances(elements) :
         isList[held[1]] => isArray(held[2])
    /\ \A i \in 1..Len(elements) :
         (/\ elements[i].kind = "instance"
          /\ "a" \in DOMAIN discovered.elements[i].value.m
          /\ ~isArray(discovered.elements[i].value.m.a)
          /\ isList[<<"Inst", "a">>])
           => elements[i].value.m.a = List(<<discovered.elements[i].value.m.a>>)

\* C23 witness: the first instance held single values at a, at o and at x,
\* the second held sequences there, no flag was set, and the run has wrapped
\* the values of the first.
C23_Witness ==
  /\ pc = "fixed"
  /\ discovered.isList = [field \in FieldIds |-> FALSE]
  /\ discovered.elements[2].value =
       Obj([a |-> Prim(1), o |-> Obj([x |-> Prim(1)])])
  /\ discovered.elements[3].value =
       Obj([a |-> List(<<Prim(1)>>), o |-> List(<<Obj([x |-> List(<<Prim(1)>>)])>>)])
  /\ elements[2].value =
       Obj([a |-> List(<<Prim(1)>>), o |-> List(<<Obj([x |-> List(<<Prim(1)>>)])>>)])
  /\ isList = [field \in FieldIds |-> TRUE]

----------------------------------------------------------------------------
(* discoverMetadataTypes: one element for a type name *)

\* The names of the type elements of a result, in order.
TypeNamesOf(types) == [i \in 1..Len(types) |-> types[i].name]

NoNameTwice(names) ==
  \A i, j \in 1..Len(names) : names[i] = names[j] => i = j

\* C25: whichever order the describe calls of the discoverMetadataType tasks
\* settle in, the results of the tasks taken together never hold two type
\* elements of one name, the names they hold are those of knownTypes, and what
\* discoverMetadataTypes resolves with is these results with no name twice;
\* createMetadataTypeElements comes to a result for every describe result,
\* those whose embedded types name each other in a cycle included.
C25_TypeUniqueness ==
  pc \in {"describing", "types"} =>
    LET created == TypeNamesOf(flattenResults(describes, 1))
    IN /\ NoNameTwice(created)
       /\ {created[i] : i \in 1..Len(created)} = knownTypes
       /\ \A i \in DOMAIN describes :
            describes[i].state = "done" =>
              \/ describes[i].result = <<>>
              \/ describes[i].result[1].name = DISCOVER_METADATA_TYPES_WHITELIST[i]
       /\ metadataTypes.state = "done" =>
            /\ TypeNamesOf(metadataTypes.types) = created
            /\ \A i \in DOMAIN describes : describes[i].state = "done"

\* C25 witness: Flow embeds FlowNode, which embeds Flow, under two fields;
\* Workflow embeds Flow, which embeds FlowNode; the task of Flow ran first and
\* created Flow and FlowNode once, the task of Workflow created Workflow only.
C25_Witness ==
  /\ pc = "types"
  /\ LET leaf == [name |-> "f1", soapType |-> "string", fields |-> NoFields]
         flow == [name |-> "f1", soapType |-> "Flow", fields |-> OneField(leaf)]
         node == [name |-> "f1", soapType |-> "FlowNode", fields |-> ManyFields(<<flow>>)]
         nodeLeaf == [name |-> "f1", soapType |-> "FlowNode", fields |-> OneField(leaf)]
         flowNode == [name |-> "f1", soapType |-> "Flow", fields |-> OneField(nodeLeaf)]
     IN /\ describes[1].fields = ManyFields(<<node, [node EXCEPT !.name = "f2"]>>)
        /\ describes[2].fields = ManyFields(<<flowNode>>)
  /\ TypeNamesOf(describes[1].result) = <<"Flow", "FlowNode">>
  /\ TypeNamesOf(describes[2].result) = <<"Workflow">>
  /\ TypeNamesOf(metadataTypes.types) = <<"Flow", "FlowNode", "Workflow">>

----------------------------------------------------------------------------
(* discover: when fixListsDiscovery runs *)

StepsOf(done) == [i \in 1..Len(done) |-> done[i].step]

\* C21: in discover, nothing is done with the elements while a discovery task
\* is unsettled or has rejected; once the four tasks have resolved,
\* fixListsDiscovery runs once, on the elements of all four, and only then
\* are the elements, as it left them, given to aspects.discover and returned.
C21_FixListsTiming ==
  pc \in {"awaitTypes", "awaitAll", "returned", "rejected"} =>
    /\ trail # <<>> =>
         /\ \A i \in 1..Len(DiscoveryTasks) : tasks[DiscoveryTasks[i]] = "done"
         /\ StepsOf(trail) = <<"fixListsDiscovery", "aspects.discover", "return">>
         /\ trail[1].elements =
              discovered.results.fieldTypes \o discovered.results.metadataTypes \o
              discovered.results.sObjects \o discovered.results.metadataInstances
         /\ trail[2].elements = fixListsDiscovery(trail[1].elements, discovered.isList).elements
         /\ trail[3].elements = trail[2].elements
         /\ elements = trail[3].elements
         /\ \A held \in HeldByInstances(trail[2].elements) :
              isList[held[1]] <=> isArray(held[2])
    /\ (pc = "returned") <=> (trail # <<>>)

\* C21 witness: discover has returned; one instance held a single value at a
\* and the other a sequence, and aspects.discover was given both as sequences.
C21_Witness ==
  /\ pc = "returned"
  /\ discovered.isList = [field \in FieldIds |-> FALSE]
  /\ discovered.results.metadataInstances[1].value = Obj([a |-> Prim(1)])
  /\ discovered.results.metadataInstances[2].value = Obj([a |-> List(<<Prim(1)>>)])
  /\ trail[1].step = "fixListsDiscovery"
  /\ trail[2].step = "aspects.discover"
  /\ trail[2].elements[4].value = Obj([a |-> List(<<Prim(1)>>)])
  /\ trail[2].elements[5].value = Obj([a |-> List(<<Prim(1)>>)])

====
